---- MODULE Spec2Model ----
(***************************************************************************)
(* groove-link mcp-server: the bridge between operator (CLI) connections   *)
(* and the single Bitwig device connection.                                *)
(*                                                                         *)
(*   protocol.rs  frame codec and JSON-RPC message model                   *)
(*   bitwig.rs    BitwigConnection (one device link), BitwigManager (slot),*)
(*                listen (device accept loop)                              *)
(*   server.rs    handle_cli_connection (operator loop), cli_listener      *)
(*                                                                         *)
(* The bridge is modelled at the level of frames: a frame on a wire is its *)
(* JSON payload.  The byte level of the codec has a specification of its   *)
(* own (SpecFrame) further down.                                           *)
(***************************************************************************)
EXTENDS Integers, Sequences, FiniteSets, TLC

\* ------------------------------------------------------------------ bounds
\* Device connections that listen may accept.
MaxConns == 2
\* Requests read from operators, over all operator connections.
MaxReqs == 2
\* Frames the device peer sends, over all device connections.
MaxDevFrames == 2

\* The operator connections: two tasks running handle_cli_connection.
Ops == {1, 2}
\* The task running listen, as a holder of the slot's lock.
Listener == 0
Conns == 1..MaxConns

\* ------------------------------------------------------- JSON message model
\* What a stream yields when a frame is read from it: a JSON object, a payload
\* that is not JSON, or the end of the stream.  A JSON object is a record over the
\* field names the bridge looks at.  A string field the object does not have is
\* Absent, one holding JSON null is Null; id and error are <<>> when the object
\* does not have them and <<v>> when it has them.
Absent == "<absent>"
Null == "<null>"

Json(jsonrpc, method, params, id, result, error) ==
    [kind |-> "json", jsonrpc |-> jsonrpc, method |-> method, params |-> params,
     id |-> id, result |-> result, error |-> error]

\* A payload that is not JSON at all.
Garbage ==
    [kind |-> "garbage", jsonrpc |-> Absent, method |-> Absent, params |-> Absent,
     id |-> <<>>, result |-> Absent, error |-> <<>>]

\* The end of a stream (the peer closed, or the transport failed).
Eof ==
    [kind |-> "eof", jsonrpc |-> Absent, method |-> Absent, params |-> Absent,
     id |-> <<>>, result |-> Absent, error |-> <<>>]

\* No frame (a local that is not set yet).
NoFrame ==
    [kind |-> "none", jsonrpc |-> Absent, method |-> Absent, params |-> Absent,
     id |-> <<>>, result |-> Absent, error |-> <<>>]

\* Option::None of a string-valued option; an option of a record is <<>> or <<v>>.
None == "<None>"

\* anyhow::Result: Ok(value) or Err(message).  A message is a tuple of the pieces
\* it is formatted from.
Ok(v) == [ok |-> TRUE, val |-> v, msg |-> <<>>]
Err(m) == [ok |-> FALSE, val |-> None, msg |-> m]

\* serde: an Option<Value> field is None when the field is missing or null.
OptField(v) == IF v \in {Absent, Null} THEN None ELSE v

\* serde_json::from_slice::<RpcRequest>: jsonrpc, method and id are required,
\* params defaults (Value::default() is null).
ParseRequest(payload) ==
    IF payload.kind # "json" THEN Err(<<"invalid JSON">>)
    ELSE IF payload.jsonrpc \in {Absent, Null} THEN Err(<<"missing field jsonrpc">>)
    ELSE IF payload.method \in {Absent, Null} THEN Err(<<"missing field method">>)
    ELSE IF payload.id = <<>> THEN Err(<<"missing field id">>)
    ELSE Ok([jsonrpc |-> payload.jsonrpc, method |-> payload.method,
             params |-> IF payload.params = Absent THEN Null ELSE payload.params,
             id |-> payload.id[1]])

\* serde_json::from_slice::<RpcResponse>: jsonrpc and id are required, result and
\* error are options; unknown fields are ignored.
ParseResponse(payload) ==
    IF payload.kind # "json" THEN Err(<<"invalid JSON">>)
    ELSE IF payload.jsonrpc \in {Absent, Null} THEN Err(<<"missing field jsonrpc">>)
    ELSE IF payload.id = <<>> THEN Err(<<"missing field id">>)
    ELSE Ok([jsonrpc |-> payload.jsonrpc, result |-> OptField(payload.result),
             error |-> payload.error, id |-> payload.id[1]])

\* The code the operator listener puts in every error response.
InternalError == -32603

\* RpcResponse::success
RpcSuccess(id, result) ==
    [jsonrpc |-> "2.0", result |-> result, error |-> <<>>, id |-> id]

\* RpcResponse::error
RpcError(id, code, message) ==
    [jsonrpc |-> "2.0", result |-> None,
     error |-> <<[code |-> code, message |-> message]>>, id |-> id]

\* serde_json::to_vec(&RpcResponse): a None field is skipped.
SerializeResponse(r) ==
    Json(r.jsonrpc, Absent, Absent, <<r.id>>,
         IF r.result = None THEN Absent ELSE r.result, r.error)

\* serde_json::to_vec(&RpcRequest)
SerializeRequest(r) == Json(r.jsonrpc, r.method, r.params, <<r.id>>, Absent, <<>>)

\* RpcErrorText with the device's message left out of the text.
RpcErrorTextCodeOnly(e) == <<"RPC error ", e.code>>

\* anyhow!("RPC error {}: {}", error.code, error.message)
RpcErrorText(e) == <<"RPC error ", e.code, ": ", e.message>>

\* ResultOf looking at the result before the error.
ResultOfResultFirst(response) ==
    IF response.result # None THEN Ok(response.result)
    ELSE IF response.error # <<>> THEN Err(RpcErrorText(response.error[1]))
    ELSE Err(<<"No result in response">>)

\* ResultOf with a missing result taken as null (unwrap_or_default).
ResultOfDefault(response) ==
    IF response.error # <<>> THEN Err(RpcErrorText(response.error[1]))
    ELSE IF response.result = None THEN Ok(Null)
    ELSE Ok(response.result)

\* BitwigConnection::call after the response is decoded.
ResultOf(response) ==
    IF response.error # <<>> THEN Err(RpcErrorText(response.error[1]))
    ELSE IF response.result = None THEN Err(<<"No result in response">>)
    ELSE Ok(response.result)

\* ResponseFor answering under the id of the relayed request (the one the Device
\* Connection generated) whenever the request was relayed.
ResponseForDeviceId(call) ==
    LET id == IF call.conn = 0 THEN call.request.id ELSE call.id IN
    IF call.outcome.ok THEN RpcSuccess(id, call.outcome.val)
    ELSE RpcError(id, InternalError, call.outcome.msg)

\* handle_cli_connection: the response built from the outcome of the call, for
\* the locals `call` of the loop iteration.
ResponseFor(call) ==
    IF call.outcome.ok THEN RpcSuccess(call.request.id, call.outcome.val)
    ELSE RpcError(call.request.id, InternalError, call.outcome.msg)

\* ------------------------------------------------------------------ inputs
\* What an operator may put on its connection: the two requests of the bridge's
\* tools (server.rs), a notification (no id), a payload that is not JSON, and the
\* end of the stream.
InfoGet == Json("2.0", "info.get", "{}", <<1>>, Absent, <<>>)
ListTracks == Json("2.0", "list.tracks", Absent, <<7>>, Absent, <<>>)
OpFrames ==
    { InfoGet, ListTracks,
      Json("2.0", "list.tracks", "{}", <<>>, Absent, <<>>),
      Garbage }
OpInputs == OpFrames \cup {Eof}

\* What the device peer may put on its connection: responses with a result, an
\* error, both, neither; a notification (no id); a payload that is not JSON.
DeviceError == [code |-> -32000, message |-> <<"boom">>]
DeviceResult == Json("2.0", Absent, Absent, <<1>>, "tracks", <<>>)
DeviceFailure == Json("2.0", Absent, Absent, <<1>>, Absent, <<DeviceError>>)
DevFrames ==
    { DeviceResult, DeviceFailure,
      Json("2.0", Absent, Absent, <<2>>, "tracks", <<DeviceError>>),
      Json("2.0", Absent, Absent, <<2>>, Absent, <<>>),
      Json("2.0", "progress", "50%", <<>>, Absent, <<>>),
      Garbage }

IsNotification(f) == f.kind = "json" /\ f.id = <<>> /\ f.method # Absent

\* ------------------------------------------------------------------- state
VARIABLES
    slot,        \* BitwigManager.connection: 0 is None, c is Some(connection c)
    slotLock,    \* the tasks holding a guard of BitwigManager.connection's RwLock
    status,      \* what bitwig_status last got from is_connected (<<>>: not asked yet)
    nconns,      \* device connections accepted so far; the k-th one is k
    request_id,  \* BitwigConnection.request_id
    writer,      \* BitwigConnection.writer: the operator task holding the lock, or 0
    reader,      \* BitwigConnection.reader: the operator task holding the lock, or 0
    toDevice,    \* request frames written to each device connection, in order
    fromDevice,  \* frames the device has sent on each connection, in order
    rpos,        \* how many of fromDevice[c] have been read off the transport
    devOpen,     \* whether the device's end of the transport is open
    pc,          \* where each operator task is in handle_cli_connection
    cur,         \* the locals of the operator task's current loop iteration
    done,        \* the locals of the iterations that reached the response write
    toOp,        \* response frames written to each operator connection, in order
    nreqs,       \* requests read from operators so far
    \* the codec on one byte stream (SpecFrame)
    stream,      \* the bytes written to the stream and not read yet
    eof,         \* whether the writing end of the stream is closed
    frame,       \* what the last read_frame returned
    consumed,    \* how many bytes the last read_frame took off the stream
    nwrites,     \* write_frame calls so far
    nreads,      \* read_frame calls so far
    written      \* the payloads handed to write_frame so far, in order

bridgeVars == <<slot, slotLock, status, nconns, request_id, writer, reader, toDevice, fromDevice,
                rpos, devOpen, pc, cur, done, toOp, nreqs>>
frameVars == <<stream, eof, frame, consumed, nwrites, nreads, written>>
vars == <<bridgeVars, frameVars>>

\* The locals of one iteration of handle_cli_connection's loop, with those of the
\* calls it makes: the request read, the connection BitwigManager::call cloned
\* out of the slot (0: none yet, or None), the id BitwigConnection::call took,
\* whether it wrote its request frame, the frame it read (got, and its place among
\* the connection's frames), and the call's outcome.
NoRequest == [jsonrpc |-> Absent, method |-> Absent, params |-> Absent, id |-> 0]
NoOutcome == [ok |-> FALSE, val |-> None, msg |-> <<>>]
NoCall ==
    [request |-> NoRequest, conn |-> 0, id |-> 0, wrote |-> FALSE,
     got |-> NoFrame, gotIdx |-> 0, outcome |-> NoOutcome]

InitBridge ==
    /\ slot = 0
    /\ slotLock = {}
    /\ status = <<>>
    /\ nconns = 0
    /\ request_id = [c \in Conns |-> 0]
    /\ writer = [c \in Conns |-> 0]
    /\ reader = [c \in Conns |-> 0]
    /\ toDevice = [c \in Conns |-> <<>>]
    /\ fromDevice = [c \in Conns |-> <<>>]
    /\ rpos = [c \in Conns |-> 0]
    /\ devOpen = [c \in Conns |-> FALSE]
    /\ pc = [o \in Ops |-> "NotAccepted"]
    /\ cur = [o \in Ops |-> NoCall]
    /\ done = [o \in Ops |-> <<>>]
    /\ toOp = [o \in Ops |-> <<>>]
    /\ nreqs = 0

\* ------------------------------------------------------------ device side
\* set_connection keeping the connection the slot already holds.
set_connection_keep(c) == slot' = IF slot = 0 THEN c ELSE slot

\* BitwigManager::set_connection
set_connection(c) == slot' = c

\* listen: one turn of the accept loop that accepts a stream: BitwigConnection::new
\* (counter 0, both locks free) and set_connection, which takes the slot's write
\* guard (no other guard is held) and drops it on return.  The device connects at
\* most `limit` times.
Accept(limit) ==
    /\ nconns < limit
    /\ slotLock = {}
    /\ slotLock' = slotLock
    /\ nconns' = nconns + 1
    /\ request_id' = [request_id EXCEPT ![nconns + 1] = 0]
    /\ writer' = [writer EXCEPT ![nconns + 1] = 0]
    /\ reader' = [reader EXCEPT ![nconns + 1] = 0]
    /\ devOpen' = [devOpen EXCEPT ![nconns + 1] = TRUE]
    /\ set_connection(nconns + 1)
    /\ UNCHANGED <<frameVars, status, toDevice, fromDevice, rpos, pc, cur, done, toOp, nreqs>>

FramesSent == LET Sum[c \in 0..MaxConns] ==
                      IF c = 0 THEN 0 ELSE Len(fromDevice[c]) + Sum[c - 1]
              IN Sum[MaxConns]

\* The frames among fs that are not notifications.
Answers(fs) == Len(SelectSeq(fs, LAMBDA f : ~IsNotification(f)))

\* The device peer sends a frame on connection c.  The device speaks only when
\* spoken to: it has received a request it has not answered yet, and it sends
\* either a notification or its answer.
DeviceSend(c, f) ==
    /\ c <= nconns
    /\ devOpen[c]
    /\ FramesSent < MaxDevFrames
    /\ Answers(fromDevice[c]) < Len(toDevice[c])
    /\ fromDevice' = [fromDevice EXCEPT ![c] = Append(@, f)]
    /\ UNCHANGED <<frameVars, slotLock, status, slot, nconns, request_id, writer, reader, toDevice, rpos,
                   devOpen, pc, cur, done, toOp, nreqs>>

\* The device peer answers the oldest request on connection c that it has not
\* answered yet: the response f, under the id of that request.
DeviceReply(c, f) ==
    /\ c <= nconns
    /\ devOpen[c]
    /\ FramesSent < MaxDevFrames
    /\ Answers(fromDevice[c]) < Len(toDevice[c])
    /\ fromDevice' = [fromDevice EXCEPT ![c] =
           Append(@, [f EXCEPT !.id = toDevice[c][Answers(fromDevice[c]) + 1].id])]
    /\ UNCHANGED <<frameVars, slotLock, status, slot, nconns, request_id, writer, reader, toDevice, rpos,
                   devOpen, pc, cur, done, toOp, nreqs>>

\* DeviceClose noticed by the bridge, which empties the slot (clear_connection)
\* when the connection that ended is the one it holds.
DeviceCloseClears(c) ==
    /\ c <= nconns
    /\ devOpen[c]
    /\ devOpen' = [devOpen EXCEPT ![c] = FALSE]
    /\ slot' = IF slot = c THEN 0 ELSE slot
    /\ UNCHANGED <<frameVars, slotLock, status, nconns, request_id, writer, reader,
                   toDevice, fromDevice, rpos, pc, cur, done, toOp, nreqs>>

\* The device peer closes connection c (or the transport fails).  Nothing in the
\* bridge watches for it: no task calls clear_connection.
DeviceClose(c) ==
    /\ c <= nconns
    /\ devOpen[c]
    /\ devOpen' = [devOpen EXCEPT ![c] = FALSE]
    /\ UNCHANGED <<frameVars, slotLock, status, slot, nconns, request_id, writer, reader, toDevice,
                   fromDevice, rpos, pc, cur, done, toOp, nreqs>>

\* BitwigManager::is_connected
is_connected == slot # 0

\* bitwig_status: the MCP tool asks is_connected, under the slot's read guard.
Status ==
    /\ Listener \notin slotLock
    /\ status' = <<is_connected>>
    /\ UNCHANGED <<frameVars, slot, slotLock, nconns, request_id, writer, reader, toDevice,
                   fromDevice, rpos, devOpen, pc, cur, done, toOp, nreqs>>

\* ---------------------------------------------------------- operator side
\* cli_listener: one turn of the accept loop that accepts a stream and spawns
\* handle_cli_connection for it.
CliAccept(o) ==
    /\ pc[o] = "NotAccepted"
    /\ pc' = [pc EXCEPT ![o] = "AwaitRequest"]
    /\ UNCHANGED <<frameVars, slotLock, status, slot, nconns, request_id, writer, reader, toDevice,
                   fromDevice, rpos, devOpen, cur, done, toOp, nreqs>>

\* protocol::read_request on what the operator sent.
read_request(input) == IF input.kind = "eof" THEN Err(<<"early eof">>) ELSE ParseRequest(input)

\* ReadRequest answering a request it cannot decode with an error frame and
\* reading on.
ReadRequestAnswersBad(o, input) ==
    /\ pc[o] = "AwaitRequest"
    /\ nreqs < MaxReqs
    /\ LET r == read_request(input) IN
         IF r.ok
         THEN /\ cur' = [cur EXCEPT ![o] = [NoCall EXCEPT !.request = r.val]]
              /\ pc' = [pc EXCEPT ![o] = "Dispatch"]
              /\ nreqs' = nreqs + 1
              /\ UNCHANGED toOp
         ELSE /\ toOp' = [toOp EXCEPT ![o] =
                     Append(@, SerializeResponse(RpcError(0, InternalError, r.msg)))]
              /\ UNCHANGED <<pc, cur, nreqs>>
    /\ UNCHANGED <<frameVars, slotLock, status, slot, nconns, request_id, writer, reader, toDevice,
                   fromDevice, rpos, devOpen, done>>

\* handle_cli_connection: read the next request; an error breaks the loop.
ReadRequest(o, input) ==
    /\ pc[o] = "AwaitRequest"
    /\ nreqs < MaxReqs
    /\ LET r == read_request(input) IN
         IF r.ok
         THEN /\ cur' = [cur EXCEPT ![o] = [NoCall EXCEPT !.request = r.val]]
              /\ pc' = [pc EXCEPT ![o] = "Dispatch"]
              /\ nreqs' = nreqs + 1
         ELSE /\ pc' = [pc EXCEPT ![o] = "Closed"]
              /\ UNCHANGED <<frameVars, slotLock, status, cur, nreqs>>
    /\ UNCHANGED <<frameVars, slotLock, status, slot, nconns, request_id, writer, reader, toDevice,
                   fromDevice, rpos, devOpen, done, toOp>>

\* Snapshot with an empty slot treated as fatal for the operator connection.
SnapshotFatal(o) ==
    /\ pc[o] = "Dispatch"
    /\ Listener \notin slotLock
    /\ slotLock' = slotLock
    /\ IF slot = 0
       THEN /\ pc' = [pc EXCEPT ![o] = "Closed"]
            /\ UNCHANGED cur
       ELSE /\ cur' = [cur EXCEPT ![o].conn = slot]
            /\ pc' = [pc EXCEPT ![o] = "NextId"]
    /\ UNCHANGED <<frameVars, status, slot, nconns, request_id, writer, reader, toDevice,
                   fromDevice, rpos, devOpen, done, toOp, nreqs>>

\* Snapshot keeping the slot's read guard while the call runs on the connection.
SnapshotHolding(o) ==
    /\ pc[o] = "Dispatch"
    /\ Listener \notin slotLock
    /\ IF slot = 0
       THEN /\ cur' = [cur EXCEPT ![o].outcome = Err(<<"Bitwig not connected">>)]
            /\ pc' = [pc EXCEPT ![o] = "Respond"]
            /\ slotLock' = slotLock
       ELSE /\ cur' = [cur EXCEPT ![o].conn = slot]
            /\ pc' = [pc EXCEPT ![o] = "NextId"]
            /\ slotLock' = slotLock \cup {o}
    /\ UNCHANGED <<frameVars, status, slot, nconns, request_id, writer, reader, toDevice,
                   fromDevice, rpos, devOpen, done, toOp, nreqs>>

\* BitwigManager::call: clone the slot under the read guard (taken when listen
\* does not hold the write guard, dropped at the end of the block, before the
\* call on the connection); None is an error.
Snapshot(o) ==
    /\ pc[o] = "Dispatch"
    /\ Listener \notin slotLock
    /\ slotLock' = slotLock
    /\ IF slot = 0
       THEN /\ cur' = [cur EXCEPT ![o].outcome = Err(<<"Bitwig not connected">>)]
            /\ pc' = [pc EXCEPT ![o] = "Respond"]
       ELSE /\ cur' = [cur EXCEPT ![o].conn = slot]
            /\ pc' = [pc EXCEPT ![o] = "NextId"]
    /\ UNCHANGED <<frameVars, status, slot, nconns, request_id, writer, reader, toDevice,
                   fromDevice, rpos, devOpen, done, toOp, nreqs>>

\* next_id returning the counter as it was before the increment.
next_id_stale(n) == n

\* BitwigConnection::next_id: what it returns when the counter holds n (the
\* counter after `*id += 1`).
next_id(n) == n + 1

\* NextId reading the counter without storing the increment.
NextIdNoStore(o) ==
    /\ pc[o] = "NextId"
    /\ cur' = [cur EXCEPT ![o].id = next_id(request_id[cur[o].conn])]
    /\ pc' = [pc EXCEPT ![o] = "LockWriter"]
    /\ UNCHANGED <<frameVars, slotLock, status, slot, nconns, request_id, writer, reader,
                   toDevice, fromDevice, rpos, devOpen, done, toOp, nreqs>>

\* BitwigConnection::call: let id = self.next_id().await (the counter's lock is
\* held across the increment and the read, with no suspension in between).
NextId(o) ==
    /\ pc[o] = "NextId"
    /\ LET c == cur[o].conn IN
         /\ request_id' = [request_id EXCEPT ![c] = @ + 1]
         /\ cur' = [cur EXCEPT ![o].id = next_id(request_id[c])]
    /\ pc' = [pc EXCEPT ![o] = "LockWriter"]
    /\ UNCHANGED <<frameVars, slotLock, status, slot, nconns, writer, reader, toDevice, fromDevice, rpos,
                   devOpen, done, toOp, nreqs>>

\* LockWriter without waiting for the lock to be free.
LockWriterNoWait(o) ==
    /\ pc[o] = "LockWriter"
    /\ writer' = [writer EXCEPT ![cur[o].conn] = o]
    /\ pc' = [pc EXCEPT ![o] = "Writing"]
    /\ UNCHANGED <<frameVars, slotLock, status, slot, nconns, request_id, reader, toDevice, fromDevice,
                   rpos, devOpen, cur, done, toOp, nreqs>>

\* BitwigConnection::call: self.writer.lock().await
LockWriter(o) ==
    /\ pc[o] = "LockWriter"
    /\ writer[cur[o].conn] = 0
    /\ writer' = [writer EXCEPT ![cur[o].conn] = o]
    /\ pc' = [pc EXCEPT ![o] = "Writing"]
    /\ UNCHANGED <<frameVars, slotLock, status, slot, nconns, request_id, reader, toDevice, fromDevice,
                   rpos, devOpen, cur, done, toOp, nreqs>>

\* The RpcRequest BitwigConnection::call builds.
DeviceRequest(method, params, id) ==
    [jsonrpc |-> "2.0", method |-> method, params |-> params, id |-> id]

\* WriteOk with the writer guard kept until the call returns (no block around the
\* write).
WriteOkKeepsLock(o) ==
    /\ pc[o] = "Writing"
    /\ LET c == cur[o].conn
           r == cur[o].request IN
         toDevice' = [toDevice EXCEPT ![c] =
                Append(@, SerializeRequest(DeviceRequest(r.method, r.params, cur[o].id)))]
    /\ cur' = [cur EXCEPT ![o].wrote = TRUE]
    /\ pc' = [pc EXCEPT ![o] = "LockReader"]
    /\ UNCHANGED <<frameVars, slotLock, status, slot, nconns, request_id, writer, reader,
                   fromDevice, rpos, devOpen, done, toOp, nreqs>>

\* BitwigConnection::call: write_request under the writer lock succeeds; the lock
\* is dropped at the end of the block.
WriteOk(o) ==
    /\ pc[o] = "Writing"
    /\ LET c == cur[o].conn
           r == cur[o].request IN
         /\ toDevice' = [toDevice EXCEPT ![c] =
                Append(@, SerializeRequest(DeviceRequest(r.method, r.params, cur[o].id)))]
         /\ writer' = [writer EXCEPT ![c] = 0]
    /\ cur' = [cur EXCEPT ![o].wrote = TRUE]
    /\ pc' = [pc EXCEPT ![o] = "LockReader"]
    /\ UNCHANGED <<frameVars, slotLock, status, slot, nconns, request_id, reader, fromDevice, rpos, devOpen,
                   done, toOp, nreqs>>

\* BitwigConnection::call: write_request fails (the transport is gone); `?` returns
\* the error and drops the lock.
WriteFail(o) ==
    /\ pc[o] = "Writing"
    /\ ~devOpen[cur[o].conn]
    /\ writer' = [writer EXCEPT ![cur[o].conn] = 0]
    /\ cur' = [cur EXCEPT ![o].outcome = Err(<<"transport error">>)]
    /\ pc' = [pc EXCEPT ![o] = "Respond"]
    /\ UNCHANGED <<frameVars, slotLock, status, slot, nconns, request_id, reader, toDevice, fromDevice, rpos,
                   devOpen, done, toOp, nreqs>>

\* BitwigConnection::call: self.reader.lock().await
LockReader(o) ==
    /\ pc[o] = "LockReader"
    /\ reader[cur[o].conn] = 0
    /\ reader' = [reader EXCEPT ![cur[o].conn] = o]
    /\ pc' = [pc EXCEPT ![o] = "Reading"]
    /\ UNCHANGED <<frameVars, slotLock, status, slot, nconns, request_id, writer, toDevice, fromDevice,
                   rpos, devOpen, cur, done, toOp, nreqs>>

\* protocol::read_response on the next frame of the transport, followed by
\* BitwigConnection::call's look at the decoded response.
read_response(input) ==
    IF input.kind = "eof" THEN Err(<<"early eof">>)
    ELSE LET r == ParseResponse(input) IN
         IF r.ok THEN ResultOf(r.val) ELSE r

\* Read taking its frame from the connection the slot holds now instead of the
\* one the call cloned out of the slot.
ReadFromSlot(o) ==
    /\ pc[o] = "Reading"
    /\ LET c == slot IN
         /\ \/ /\ rpos[c] < Len(fromDevice[c])
               /\ rpos' = [rpos EXCEPT ![c] = @ + 1]
               /\ cur' = [cur EXCEPT ![o].got = fromDevice[c][rpos[c] + 1],
                                     ![o].gotIdx = rpos[c] + 1,
                                     ![o].outcome = read_response(fromDevice[c][rpos[c] + 1])]
            \/ /\ rpos[c] = Len(fromDevice[c])
               /\ ~devOpen[c]
               /\ cur' = [cur EXCEPT ![o].got = Eof,
                                     ![o].outcome = read_response(Eof)]
               /\ UNCHANGED rpos
         /\ reader' = [reader EXCEPT ![cur[o].conn] = 0]
    /\ pc' = [pc EXCEPT ![o] = "Respond"]
    /\ UNCHANGED <<frameVars, slotLock, status, slot, nconns, request_id, writer, toDevice, fromDevice,
                   devOpen, done, toOp, nreqs>>

\* Read sending a call that failed back to the start of BitwigManager::call.
ReadRetries(o) ==
    /\ pc[o] = "Reading"
    /\ LET c == cur[o].conn IN
         /\ \/ /\ rpos[c] < Len(fromDevice[c])
               /\ rpos' = [rpos EXCEPT ![c] = @ + 1]
               /\ cur' = [cur EXCEPT ![o].got = fromDevice[c][rpos[c] + 1],
                                     ![o].gotIdx = rpos[c] + 1,
                                     ![o].outcome = read_response(fromDevice[c][rpos[c] + 1])]
            \/ /\ rpos[c] = Len(fromDevice[c])
               /\ ~devOpen[c]
               /\ cur' = [cur EXCEPT ![o].got = Eof,
                                     ![o].outcome = read_response(Eof)]
               /\ UNCHANGED rpos
         /\ reader' = [reader EXCEPT ![c] = 0]
    /\ pc' = [pc EXCEPT ![o] = IF cur'[o].outcome.ok THEN "Respond" ELSE "Dispatch"]
    /\ UNCHANGED <<frameVars, slotLock, status, slot, nconns, request_id, writer, toDevice, fromDevice,
                   devOpen, done, toOp, nreqs>>

\* BitwigConnection::call: read one frame under the reader lock (the next frame
\* the device sent, or the end of the stream once the device has closed and
\* everything it sent is read), drop the lock, and return the outcome.
Read(o) ==
    /\ pc[o] = "Reading"
    /\ LET c == cur[o].conn IN
         /\ \/ /\ rpos[c] < Len(fromDevice[c])
               /\ rpos' = [rpos EXCEPT ![c] = @ + 1]
               /\ cur' = [cur EXCEPT ![o].got = fromDevice[c][rpos[c] + 1],
                                     ![o].gotIdx = rpos[c] + 1,
                                     ![o].outcome = read_response(fromDevice[c][rpos[c] + 1])]
            \/ /\ rpos[c] = Len(fromDevice[c])
               /\ ~devOpen[c]
               /\ cur' = [cur EXCEPT ![o].got = Eof,
                                     ![o].outcome = read_response(Eof)]
               /\ UNCHANGED rpos
         /\ reader' = [reader EXCEPT ![c] = 0]
    /\ pc' = [pc EXCEPT ![o] = "Respond"]
    /\ UNCHANGED <<frameVars, slotLock, status, slot, nconns, request_id, writer, toDevice, fromDevice,
                   devOpen, done, toOp, nreqs>>

\* handle_cli_connection: write_response succeeds, and the loop goes round.
RespondOk(o) ==
    /\ pc[o] = "Respond"
    /\ toOp' = [toOp EXCEPT ![o] =
           Append(@, SerializeResponse(ResponseFor(cur[o])))]
    /\ done' = [done EXCEPT ![o] = Append(@, cur[o])]
    /\ cur' = [cur EXCEPT ![o] = NoCall]
    /\ pc' = [pc EXCEPT ![o] = "AwaitRequest"]
    /\ UNCHANGED <<frameVars, slotLock, status, slot, nconns, request_id, writer, reader, toDevice,
                   fromDevice, rpos, devOpen, nreqs>>

\* RespondFail taking the device connection down with the operator connection.
RespondFailClears(o) ==
    /\ pc[o] = "Respond"
    /\ done' = [done EXCEPT ![o] = Append(@, cur[o])]
    /\ cur' = [cur EXCEPT ![o] = NoCall]
    /\ pc' = [pc EXCEPT ![o] = "Closed"]
    /\ slot' = 0
    /\ UNCHANGED <<frameVars, slotLock, status, nconns, request_id, writer, reader, toDevice,
                   fromDevice, rpos, devOpen, toOp, nreqs>>

\* handle_cli_connection: write_response fails, which breaks the loop.
RespondFail(o) ==
    /\ pc[o] = "Respond"
    /\ done' = [done EXCEPT ![o] = Append(@, cur[o])]
    /\ cur' = [cur EXCEPT ![o] = NoCall]
    /\ pc' = [pc EXCEPT ![o] = "Closed"]
    /\ UNCHANGED <<frameVars, slotLock, status, slot, nconns, request_id, writer, reader, toDevice,
                   fromDevice, rpos, devOpen, toOp, nreqs>>

\* ------------------------------------------------------------- frame codec
\* A byte stream is a sequence of runs <<b, n>>: n > 0 bytes of value b, with
\* neighbouring runs of different values (so equal streams are equal sequences).
\* A frame of 10 MiB is then one run, not ten million elements.
Run(b, n) == IF n = 0 THEN <<>> ELSE << <<b, n>> >>

\* The concatenation of two byte streams.
Cat(s, t) ==
    IF s = <<>> THEN t
    ELSE IF t = <<>> THEN s
    ELSE IF s[Len(s)][1] = t[1][1]
         THEN SubSeq(s, 1, Len(s) - 1)
                \o << <<t[1][1], s[Len(s)][2] + t[1][2]>> >>
                \o SubSeq(t, 2, Len(t))
         ELSE s \o t

\* The number of bytes of a stream.
RECURSIVE Size(_)
Size(s) == IF s = <<>> THEN 0 ELSE s[1][2] + Size(Tail(s))

\* The first k bytes of a stream (all of it when it is shorter).
RECURSIVE Take(_, _)
Take(s, k) ==
    IF k = 0 \/ s = <<>> THEN <<>>
    ELSE IF s[1][2] >= k THEN << <<s[1][1], k>> >>
    ELSE <<s[1]>> \o Take(Tail(s), k - s[1][2])

\* A stream without its first k bytes.
RECURSIVE Drop(_, _)
Drop(s, k) ==
    IF k = 0 \/ s = <<>> THEN s
    ELSE IF s[1][2] > k THEN << <<s[1][1], s[1][2] - k>> >> \o Tail(s)
    ELSE Drop(Tail(s), k - s[1][2])

\* The i-th byte of a stream, 1 <= i <= Size(s).
RECURSIVE ByteAt(_, _)
ByteAt(s, i) == IF i <= s[1][2] THEN s[1][1] ELSE ByteAt(Tail(s), i - s[1][2])

\* A u32 is the pair of its 16-bit halves, <<high, low>>: the checker's integers
\* are 32 bits wide and signed, and a length prefix may be as large as 2^32 - 1.
\* `n as u32` of a size n:
AsU32(n) == <<(n \div 65536) % 65536, n % 65536>>

\* `len as usize` of a u32.
AsUsize(x) == x[1] * 65536 + x[2]

\* x > y on u32.
Gt(x, y) == x[1] > y[1] \/ (x[1] = y[1] /\ x[2] > y[2])

\* u32::from_be_bytes of the first four bytes of a stream.
from_be_bytes(s) ==
    <<ByteAt(s, 1) * 256 + ByteAt(s, 2), ByteAt(s, 3) * 256 + ByteAt(s, 4)>>

\* to_be_bytes with the least significant byte first.
to_le_bytes(x) ==
    Cat(Cat(Run(x[2] % 256, 1), Run(x[2] \div 256, 1)),
        Cat(Run(x[1] % 256, 1), Run(x[1] \div 256, 1)))

\* u32::to_be_bytes, as a stream of four bytes.
to_be_bytes(x) ==
    Cat(Cat(Run(x[1] \div 256, 1), Run(x[1] % 256, 1)),
        Cat(Run(x[2] \div 256, 1), Run(x[2] % 256, 1)))

\* read_frame's limit on the declared length.
MaxFrameLen == 10 * 1024 * 1024

\* TooLarge with the limit itself rejected.
TooLargeOrEqual(len) == ~Gt(AsU32(MaxFrameLen), len)

\* read_frame's test of the declared length.
TooLarge(len) == Gt(len, AsU32(MaxFrameLen))

\* What read_frame returns, and how many bytes it takes off the stream.
FrameOk(payload, n) == [ok |-> TRUE, payload |-> payload, msg |-> <<>>, taken |-> n]
FrameErr(m, n) == [ok |-> FALSE, payload |-> <<>>, msg |-> m, taken |-> n]

\* read_frame on a stream that holds s and then ends: read_exact of the four
\* length bytes, the test of the length, read_exact of the payload.  A read_exact
\* that meets the end of the stream fails, having taken what was there.
read_frame(s) ==
    IF Size(s) < 4 THEN FrameErr(<<"early eof">>, Size(s))
    ELSE LET len == from_be_bytes(s) IN
         IF TooLarge(len) THEN FrameErr(<<"Frame too large: ", len, " bytes">>, 4)
         ELSE IF Size(s) - 4 < AsUsize(len) THEN FrameErr(<<"early eof">>, Size(s))
         ELSE FrameOk(Take(Drop(s, 4), AsUsize(len)), 4 + AsUsize(len))

\* Whether read_frame on the stream returns without waiting for more bytes: the
\* bytes it asks for are there, or the stream has ended.
Readable(s, closed) ==
    IF closed THEN TRUE
    ELSE IF Size(s) < 4 THEN FALSE
    ELSE IF TooLarge(from_be_bytes(s)) THEN TRUE
    ELSE Size(s) - 4 >= AsUsize(from_be_bytes(s))

\* write_frame: the four length bytes, then the payload.
write_frame(s, payload) == Cat(Cat(s, to_be_bytes(AsU32(Size(payload)))), payload)

\* Declared lengths and payload sizes around read_frame's limit.
Sizes == {0, 2, MaxFrameLen - 1, MaxFrameLen, MaxFrameLen + 1}
Lengths == {AsU32(n) : n \in Sizes} \cup {<<65535, 65535>>}

\* The streams a peer may have written before the first read: nothing, fewer
\* than four bytes, or a length prefix followed by some bytes.
RawStreams ==
    {<<>>, Run(0, 3)}
    \cup {Cat(to_be_bytes(len), Run(b, n)) : len \in Lengths, b \in {0, 65}, n \in Sizes}

\* The payloads handed to write_frame.
Payloads == {Run(65, n) : n \in Sizes} \cup {Cat(Run(123, 1), Run(125, 1))}

\* write_frame calls in one run.
MaxWrites == 2
\* read_frame calls in one run.
MaxReads == 3

NoRead == FrameErr(<<>>, 0)

InitCodec ==
    /\ stream = <<>>
    /\ eof = FALSE
    /\ frame = NoRead
    /\ consumed = 0
    /\ nwrites = 0
    /\ nreads = 0
    /\ written = <<>>

\* A call of read_frame on the stream.
ReadFrame ==
    /\ nreads < MaxReads
    /\ Readable(stream, eof)
    /\ nreads' = nreads + 1
    /\ frame' = read_frame(stream)
    /\ consumed' = read_frame(stream).taken
    /\ stream' = Drop(stream, read_frame(stream).taken)
    /\ UNCHANGED <<bridgeVars, eof, nwrites, written>>

\* A call of write_frame on the stream.
WriteFrame(payload) ==
    /\ ~eof
    /\ nwrites < MaxWrites
    /\ stream' = write_frame(stream, payload)
    /\ nwrites' = nwrites + 1
    /\ written' = Append(written, payload)
    /\ UNCHANGED <<bridgeVars, eof, frame, consumed, nreads>>

\* The writing end closes.
CloseStream ==
    /\ ~eof
    /\ eof' = TRUE
    /\ UNCHANGED <<bridgeVars, stream, frame, consumed, nwrites, nreads, written>>

InitFrame ==
    /\ InitBridge
    /\ stream \in RawStreams
    /\ eof = FALSE
    /\ frame = NoRead
    /\ consumed = 0
    /\ nwrites = 0
    /\ nreads = 0
    /\ written = <<>>

NextFrame ==
    \/ ReadFrame
    \/ \E payload \in Payloads : WriteFrame(payload)
    \/ CloseStream

SpecFrame == InitFrame /\ [][NextFrame]_vars

Init == InitBridge /\ InitCodec

\* The codec on a stream that starts empty: everything read_frame meets was
\* written by write_frame.
SpecRound == Init /\ [][NextFrame]_vars

\* The bridge's tasks: the device accept loop (the device connecting at most
\* `limit` times) and the operator tasks ops, fed from opInputs.
Tasks(ops, limit, opInputs) ==
    \/ Accept(limit)
    \/ \E c \in Conns : DeviceClose(c)
    \/ \E o \in ops : CliAccept(o)
    \/ \E o \in ops, input \in opInputs : ReadRequest(o, input)
    \/ \E o \in ops : Snapshot(o)
    \/ \E o \in ops : NextId(o)
    \/ \E o \in ops : LockWriter(o)
    \/ \E o \in ops : WriteOk(o)
    \/ \E o \in ops : WriteFail(o)
    \/ \E o \in ops : LockReader(o)
    \/ \E o \in ops : Read(o)
    \/ \E o \in ops : RespondOk(o)
    \/ \E o \in ops : RespondFail(o)

\* The bridge with a device peer that may send any of devFrames.
Bridge(ops, limit, opInputs, devFrames) ==
    \/ Tasks(ops, limit, opInputs)
    \/ \E c \in Conns, f \in devFrames : DeviceSend(c, f)

\* Two operator connections at once, over the device's plain answers.
Next == Bridge(Ops, MaxConns, {InfoGet, Garbage, Eof}, {DeviceResult, DeviceFailure})

Spec == Init /\ [][Next]_vars

\* One operator connection and one device connection, over everything an operator
\* and the device may send.
NextRelay == Bridge({1}, 1, OpInputs, DevFrames)

SpecRelay == Init /\ [][NextRelay]_vars

\* Two operator connections at once on one device connection, with a device peer
\* that answers every request it answers under the request's id, oldest first.
NextEcho ==
    \/ Tasks(Ops, 1, {InfoGet, Eof})
    \/ \E c \in Conns, f \in {DeviceResult, DeviceFailure} : DeviceReply(c, f)

SpecEcho == Init /\ [][NextEcho]_vars

\* A step of operator task o from the dispatch of a request to the write of its
\* response.
CallStep(o) ==
    \/ Snapshot(o) \/ NextId(o)
    \/ LockWriter(o) \/ WriteOk(o) \/ WriteFail(o)
    \/ LockReader(o) \/ Read(o)
    \/ RespondOk(o) \/ RespondFail(o)

\* SpecEcho under fair scheduling: the runtime runs every task that can run, the
\* locks are fair (tokio's Mutex queues its waiters first come, first served), so
\* a task that can step again and again does step; and the device does answer
\* what it can answer.
SpecEchoFair ==
    /\ SpecEcho
    /\ \A o \in Ops : SF_vars(CallStep(o))
    /\ \A c \in Conns : WF_vars(\E f \in {DeviceResult, DeviceFailure} : DeviceReply(c, f))

\* Two operator connections and the status tool, with a device peer that connects
\* and disconnects but never answers: every relayed call stalls until its
\* transport ends.
NextSlot ==
    \/ Tasks(Ops, MaxConns, {InfoGet, Eof})
    \/ Status

SpecSlot == Init /\ [][NextSlot]_vars

\* ================================================================== claims
\* The iterations of operator o's loop whose response frame was written: the
\* i-th frame of toOp[o] answers the i-th iteration of done[o].
Answered(o) == 1..Len(toOp[o])

\* The error response frame for request id `id` with message m.
ErrorFrame(id, m) ==
    Json("2.0", Absent, Absent, <<id>>, Absent, <<[code |-> -32603, message |-> m]>>)

\* C1: a request dispatched while the slot is empty is not relayed to any device
\* connection and is answered by exactly one frame, the error -32603 "Bitwig not
\* connected" under the request's id and without a result, after which the
\* operator task is back at AwaitRequest (unless the write of that frame to the
\* operator fails, which closes the connection without a frame).
C1_NotConnected ==
    [][\A o \in Ops :
        /\ (pc[o] = "Dispatch" /\ slot = 0 /\ pc'[o] # "Dispatch")
             => /\ pc'[o] = "Respond"
                /\ cur'[o].conn = 0
                /\ toDevice' = toDevice
        /\ (pc[o] = "Respond" /\ cur[o].conn = 0 /\ pc'[o] # "Respond")
             => \/ /\ toOp'[o] = Append(toOp[o],
                          ErrorFrame(cur[o].request.id, <<"Bitwig not connected">>))
                   /\ pc'[o] = "AwaitRequest"
                \/ /\ toOp'[o] = toOp[o]
                   /\ pc'[o] = "Closed"]_vars

\* C1 witness: an operator was answered for a request dispatched on an empty slot
\* and is awaiting its next request.
C1_Witness ==
    \E o \in Ops :
        /\ pc[o] = "AwaitRequest"
        /\ Len(toOp[o]) = 1
        /\ Len(done[o]) = 1
        /\ done[o][1].conn = 0
        /\ done[o][1].request.id = 7
        /\ toOp[o][1] = ErrorFrame(7, <<"Bitwig not connected">>)

\* C2: every response frame written to an operator carries the id of the request
\* it answers, for results and for errors, whatever id the Device Connection
\* generated for the relayed request and whatever id the device's frame carried.
C2_OperatorId ==
    \A o \in Ops : \A i \in Answered(o) :
        toOp[o][i].id = <<done[o][i].request.id>>

\* C2 witness: a relayed request with id 7 went to the device under the generated
\* id 1, the device answered under id 2, and the operator was answered under 7.
C2_Witness ==
    \E o \in Ops : \E i \in Answered(o) :
        /\ done[o][i].request.id = 7
        /\ done[o][i].id = 1
        /\ done[o][i].got.id = <<2>>
        /\ toOp[o][i].id = <<7>>

\* C3: when the frame a relayed call read decodes as a response that has an error
\* object, the operator's response is an error with code -32603, whatever the
\* device's code, whose message is "RPC error <code>: <message>" with the device's
\* code and message, and it has no result.
C3_DeviceError ==
    \A o \in Ops : \A i \in Answered(o) :
        LET got == done[o][i].got IN
        (got.kind = "json" /\ got.id # <<>> /\ got.error # <<>>)
          => /\ toOp[o][i].error =
                  << [code |-> -32603,
                      message |-> <<"RPC error ", got.error[1].code, ": ",
                                    got.error[1].message>>] >>
             /\ toOp[o][i].result = Absent

\* C3 witness: the device answered with the error -32000 "boom" and the operator
\* got -32603 with that message in the text.
C3_Witness ==
    \E o \in Ops : \E i \in Answered(o) :
        /\ done[o][i].got.kind = "json"
        /\ done[o][i].got.error = <<DeviceError>>
        /\ toOp[o][i].error # <<>>
        /\ toOp[o][i].error[1].code = -32603
        /\ toOp[o][i].error[1].message[4] = <<"boom">>

\* Whether the device side of the relayed call `call` failed: the request frame
\* was not written, or what was read is the end of the stream, not JSON, not a
\* response (no jsonrpc, no id), a response with an error object, or one without
\* a result.
DeviceSideFailed(call) ==
    /\ call.conn # 0
    /\ \/ ~call.wrote
       \/ call.got.kind # "json"
       \/ call.got.jsonrpc \in {Absent, Null}
       \/ call.got.id = <<>>
       \/ call.got.error # <<>>
       \/ call.got.result \in {Absent, Null}

\* C6 (as claimed): the notification frames a call reads before the device's
\* final response are all forwarded to the operator, ahead of the response: an
\* operator has received as many notification frames as its answered calls have
\* read.
C6_ProgressForwarded ==
    \A o \in Ops :
        Len(SelectSeq(toOp[o], IsNotification))
          = Cardinality({i \in Answered(o) : IsNotification(done[o][i].got)})

\* C8: a relayed call whose device side failed never closes the operator
\* connection by itself, and the iteration ends with exactly one frame to the
\* operator, an error -32603 without result under the request's id, after which
\* the task is back at AwaitRequest (unless the write of that frame to the
\* operator fails, which closes the connection without a frame).
C8_DeviceFailureAnswered ==
    [][\A o \in Ops :
        /\ (pc[o] \in {"NextId", "LockWriter", "Writing", "LockReader", "Reading"})
             => pc'[o] # "Closed"
        /\ (pc[o] = "Respond" /\ DeviceSideFailed(cur[o]) /\ pc'[o] # "Respond")
             => \/ /\ Len(toOp'[o]) = Len(toOp[o]) + 1
                   /\ SubSeq(toOp'[o], 1, Len(toOp[o])) = toOp[o]
                   /\ LET f == toOp'[o][Len(toOp'[o])] IN
                        /\ f.error # <<>>
                        /\ f.error[1].code = -32603
                        /\ f.result = Absent
                        /\ f.id = <<cur[o].request.id>>
                   /\ pc'[o] = "AwaitRequest"
                \/ /\ toOp'[o] = toOp[o]
                   /\ pc'[o] = "Closed"]_vars

\* C8 witness: a call failed on the write to the device, the operator got its
\* error response, and the operator's next request is being dispatched.
C8_Witness ==
    \E o \in Ops :
        /\ Len(toOp[o]) = 1
        /\ Len(done[o]) = 1
        /\ DeviceSideFailed(done[o][1])
        /\ ~done[o][1].wrote
        /\ toOp[o][1].error # <<>>
        /\ pc[o] = "Dispatch"

\* C9: every response frame written to an operator has exactly one of result and
\* error; it is an error when the device's response has an error object (with or
\* without a result) and when it has neither, and it is a result only when the
\* device's response has a result and no error object.
C9_ResultXorError ==
    \A o \in Ops : \A i \in Answered(o) :
        LET f == toOp[o][i]
            got == done[o][i].got IN
        /\ (f.result = Absent) # (f.error = <<>>)
        /\ (got.kind = "json" /\ got.error # <<>>) => f.error # <<>>
        /\ (got.kind = "json" /\ got.error = <<>> /\ got.result = Absent)
             => f.error # <<>>
        /\ f.result # Absent
             => /\ got.kind = "json"
                /\ got.result \notin {Absent, Null}
                /\ got.error = <<>>
                /\ f.result = got.result

\* C9 witness: one operator has been answered for a device response with both a
\* result and an error, and for one with neither.
C9_Witness ==
    \E o \in Ops : \E i, j \in Answered(o) :
        /\ done[o][i].got.kind = "json"
        /\ done[o][i].got.result = "tracks"
        /\ done[o][i].got.error # <<>>
        /\ toOp[o][i].error # <<>>
        /\ done[o][j].got.kind = "json"
        /\ done[o][j].got.id # <<>>
        /\ done[o][j].got.result = Absent
        /\ done[o][j].got.error = <<>>
        /\ toOp[o][j].error # <<>>

\* The ids allocated on device connection c so far, each with the call that took
\* it: <<o, i, id>> for the i-th finished iteration of operator o, <<o, 0, id>> for
\* its current one.
AllocatedOn(c) ==
    UNION { { <<o, i, done[o][i].id>> :
                i \in {j \in 1..Len(done[o]) : done[o][j].conn = c} } : o \in Ops }
    \cup { <<o, 0, cur[o].id>> :
             o \in {p \in Ops : cur[p].conn = c /\ pc[p] # "NextId"} }

\* C4: the ids allocated on one Device Connection are 1, 2, 3, ... up to its
\* counter, each taken by exactly one call, whatever became of the calls; every
\* connection counts from 1.
C4_IdsConsecutive ==
    \A c \in Conns :
        /\ {a[3] : a \in AllocatedOn(c)} = 1..request_id[c]
        /\ Cardinality(AllocatedOn(c)) = request_id[c]

\* C4 witness: two calls in flight at once on connection 1, holding ids 1 and 2.
C4_Witness ==
    \E o, p \in Ops :
        /\ cur[o].conn = 1 /\ cur[p].conn = 1
        /\ pc[o] = "LockWriter" /\ pc[p] = "LockWriter"
        /\ cur[o].id = 1 /\ cur[p].id = 2

\* C5 (as claimed): once two device connections have been accepted, the slot is
\* occupied and the first connection is never written to or read from again.
C5_FirstNeverConsulted ==
    [][nconns >= 2 =>
         /\ slot # 0
         /\ toDevice'[1] = toDevice[1]
         /\ rpos'[1] = rpos[1]]_vars

\* C5 (amended): once two device connections have been accepted, the slot holds
\* the one accepted last, every call that takes its snapshot from then on gets
\* that connection, and an earlier connection is written to or read from only by
\* a call that took its snapshot of it before it was replaced.
C5_RoutedToLatest ==
    [][nconns >= 2 =>
         /\ slot = nconns
         /\ \A o \in Ops :
              (pc[o] = "Dispatch" /\ pc'[o] # "Dispatch") => cur'[o].conn = nconns
         /\ \A c \in 1..(nconns - 1) :
              (toDevice'[c] # toDevice[c] \/ rpos'[c] # rpos[c])
                => \E o \in Ops :
                     /\ cur[o].conn = c
                     /\ pc[o] \in {"Writing", "Reading"}]_vars

\* C5 witness: after the second accept a call was routed to connection 2 and has
\* written its request there, while connection 1 holds the request of an earlier
\* call.
C5_Witness ==
    /\ nconns = 2
    /\ slot = 2
    /\ Len(toDevice[1]) = 1
    /\ Len(toDevice[2]) = 1
    /\ \E o \in Ops : cur[o].conn = 2 /\ cur[o].wrote

\* C7: a step that closes one operator connection changes nothing of the other
\* operator tasks, nor the slot, the device connections' counters, locks and
\* transports, and the closed task holds no lock of any device connection.
C7_CloseIsLocal ==
    [][\A o \in Ops :
        (pc[o] # "Closed" /\ pc'[o] = "Closed")
          => /\ \A p \in Ops \ {o} :
                  /\ pc'[p] = pc[p]
                  /\ cur'[p] = cur[p]
                  /\ done'[p] = done[p]
                  /\ toOp'[p] = toOp[p]
             /\ slot' = slot
             /\ request_id' = request_id
             /\ toDevice' = toDevice
             /\ rpos' = rpos
             /\ \A c \in Conns :
                  /\ writer'[c] = writer[c] /\ writer'[c] # o
                  /\ reader'[c] = reader[c] /\ reader'[c] # o]_vars

\* C7 witness: operator 1 is closed by a failed response write after its call
\* took id 1, and operator 2 has since been answered with the device's result
\* for the call with id 2 on the same device connection.
C7_Witness ==
    /\ pc[1] = "Closed"
    /\ Len(done[1]) = 1 /\ Len(toOp[1]) = 0
    /\ done[1][1].id = 1
    /\ Len(done[2]) = 1 /\ Len(toOp[2]) = 1
    /\ done[2][1].conn = done[1][1].conn
    /\ done[2][1].id = 2
    /\ toOp[2][1].result = "tracks"

\* 10 MiB, in bytes.
TenMiB == 10485760

\* C10: a call of read_frame on a stream whose first four bytes declare more than
\* 10 MiB fails having taken those four bytes and none of the bytes after them;
\* when they declare 10 MiB or less and that many bytes follow, it returns exactly
\* those bytes as the payload and takes the prefix and the payload off the stream.
C10_SizeEnforcement ==
    [][(nreads' # nreads /\ Size(stream) >= 4) =>
         LET len == from_be_bytes(stream) IN
         IF Gt(len, AsU32(TenMiB))
         THEN /\ ~frame'.ok
              /\ consumed' = 4
              /\ stream' = Drop(stream, 4)
         ELSE (Size(stream) - 4 >= AsUsize(len))
                => /\ frame'.ok
                   /\ Size(frame'.payload) = AsUsize(len)
                   /\ frame'.payload = Take(Drop(stream, 4), AsUsize(len))
                   /\ consumed' = 4 + AsUsize(len)
                   /\ stream' = Drop(stream, 4 + AsUsize(len))]_vars

\* C10 witness: a frame declaring 10 MiB + 1 bytes was rejected after four bytes,
\* with its 10 MiB + 1 bytes of body still in the stream.
C10_Witness ==
    /\ nreads = 1
    /\ ~frame.ok
    /\ frame.msg = <<"Frame too large: ", <<160, 1>>, " bytes">>
    /\ consumed = 4
    /\ Size(stream) = TenMiB + 1

\* C11: on a stream that carries only what write_frame wrote, with every payload
\* so far of 10 MiB or less, the k-th call of read_frame returns exactly the k-th
\* payload written and takes exactly its four length bytes and the payload off
\* the stream, leaving the frames written after it untouched; and the stream
\* always holds exactly the frames written and not read yet, back to back.
C11_RoundTrip ==
    [][(nreads' # nreads /\ nreads < Len(written)
          /\ \A i \in 1..Len(written) : Size(written[i]) <= TenMiB)
         => LET payload == written[nreads + 1] IN
            /\ frame'.ok
            /\ frame'.payload = payload
            /\ consumed' = 4 + Size(payload)
            /\ Size(stream') = Size(stream) - (4 + Size(payload))
            /\ (nreads + 1 = Len(written)) => stream' = <<>>
            /\ (nreads + 1 < Len(written))
                 => from_be_bytes(stream') = AsU32(Size(written[nreads + 2]))]_vars

\* C11 witness: two different payloads, one of them of exactly 10 MiB, were
\* written back to back before the first read, and two reads returned them in
\* order and emptied the stream.
C11_Witness ==
    /\ nwrites = 2 /\ nreads = 2
    /\ Size(written[1]) = TenMiB
    /\ written[2] = Cat(Run(123, 1), Run(125, 1))
    /\ frame.ok
    /\ frame.payload = written[2]
    /\ consumed = 6
    /\ stream = <<>>

\* The relayed calls that have read a response frame, finished or not.
CallsAnswered ==
    { call \in UNION { {done[o][i] : i \in 1..Len(done[o])} \cup {cur[o]} : o \in Ops } :
        call.conn # 0 /\ call.got.kind = "json" }

\* C12 (as claimed): with a device that answers each request once, in the order
\* the requests reached it and under the request's id, every call that has read a
\* response has read the one to its own request: the id of the frame it read is
\* the id it sent.
C12_OwnResponse ==
    \A call \in CallsAnswered : call.got.id = <<call.id>>

\* The relayed calls on device connection c, each named by its operator and its
\* place in the operator's loop: <<o, i>> for the i-th finished iteration of
\* operator o, <<o, 0>> for its current one.
CallsOn(c) ==
    UNION { { <<o, i>> : i \in {j \in 1..Len(done[o]) : done[o][j].conn = c} }
              \cup (IF cur[o].conn = c THEN {<<o, 0>>} ELSE {}) : o \in Ops }

\* The locals of the call named k.
CallAt(k) == IF k[2] = 0 THEN cur[k[1]] ELSE done[k[1]][k[2]]

\* The operator tasks inside the write block, and inside the read block, of a
\* call on device connection c.
WritingOn(c) == {o \in Ops : pc[o] = "Writing" /\ cur[o].conn = c}
ReadingOn(c) == {o \in Ops : pc[o] = "Reading" /\ cur[o].conn = c}

\* C13: on every device connection at most one call is inside the write block
\* and at most one inside the read block, each being the holder of the lock; so
\* the wire holds one whole request frame per call that wrote, and no frame of
\* the device is read by two calls.
C13_LocksExclusive ==
    \A c \in Conns :
        /\ Cardinality(WritingOn(c)) <= 1
        /\ Cardinality(ReadingOn(c)) <= 1
        /\ WritingOn(c) = {o \in Ops : writer[c] = o}
        /\ ReadingOn(c) = {o \in Ops : reader[c] = o}
        /\ Len(toDevice[c]) = Cardinality({k \in CallsOn(c) : CallAt(k).wrote})
        /\ \A k, l \in CallsOn(c) :
              (k # l /\ CallAt(k).gotIdx # 0) => CallAt(k).gotIdx # CallAt(l).gotIdx

\* C13 witness: on connection 1 one call holds the reader lock, waiting for a
\* frame, while another call holds the writer lock.
C13_Witness ==
    \E o, p \in Ops :
        /\ pc[o] = "Reading" /\ cur[o].conn = 1 /\ reader[1] = o
        /\ pc[p] = "Writing" /\ cur[p].conn = 1 /\ writer[1] = p
        /\ rpos[1] = Len(fromDevice[1])

\* The state of the operator connection's state machine that a place in
\* handle_cli_connection belongs to: the whole of BitwigManager::call is Dispatch.
Phase(p) ==
    IF p \in {"Dispatch", "NextId", "LockWriter", "Writing", "LockReader", "Reading"}
    THEN "Dispatch" ELSE p

\* The moves of the operator connection's state machine.
CycleEdges ==
    { <<"NotAccepted", "AwaitRequest">>,
      <<"AwaitRequest", "Dispatch">>, <<"AwaitRequest", "Closed">>,
      <<"Dispatch", "Respond">>,
      <<"Respond", "AwaitRequest">>, <<"Respond", "Closed">> }

\* C14: an operator connection moves only along AwaitRequest -> Dispatch ->
\* Respond -> AwaitRequest, or to Closed from AwaitRequest or Respond, and never
\* out of Closed.  A request is read only at AwaitRequest, with every earlier
\* request of the connection answered.  The only step that writes to the operator
\* is Respond -> AwaitRequest, which writes exactly one frame, under the id of the
\* request just dispatched, after the frames written before.  The step from
\* AwaitRequest to Closed writes nothing to the operator and touches no device
\* connection.
C14_Cycle ==
    [][\A o \in Ops :
        LET a == Phase(pc[o])
            b == Phase(pc'[o]) IN
        /\ a # b => <<a, b>> \in CycleEdges
        /\ (a = "AwaitRequest" /\ b = "Dispatch")
             => /\ Len(toOp[o]) = Len(done[o])
                /\ cur[o] = NoCall
                /\ cur'[o].conn = 0 /\ ~cur'[o].wrote
        /\ (a = "AwaitRequest" /\ b = "Closed")
             => /\ toOp' = toOp
                /\ toDevice' = toDevice
                /\ request_id' = request_id
                /\ rpos' = rpos
                /\ writer' = writer /\ reader' = reader
        /\ toOp'[o] # toOp[o]
             => /\ a = "Respond" /\ b = "AwaitRequest"
                /\ Len(toOp'[o]) = Len(toOp[o]) + 1
                /\ SubSeq(toOp'[o], 1, Len(toOp[o])) = toOp[o]
                /\ toOp'[o][Len(toOp'[o])].id = <<cur[o].request.id>>
        /\ (a = "Respond" /\ b = "AwaitRequest") => Len(toOp'[o]) = Len(toOp[o]) + 1
        /\ a = "Closed" => (toOp'[o] = toOp[o] /\ cur'[o] = cur[o] /\ done'[o] = done[o])]_vars

\* C14 witness: an operator sent the request with id 7 and then the request with
\* id 1, was answered under 7 and then under 1, and the first request is answered
\* before the second is dispatched.
C14_Witness ==
    \E o \in Ops :
        /\ pc[o] = "AwaitRequest"
        /\ Len(toOp[o]) = 2 /\ Len(done[o]) = 2
        /\ done[o][1].request.id = 7 /\ toOp[o][1].id = <<7>>
        /\ done[o][2].request.id = 1 /\ toOp[o][2].id = <<1>>

\* C14 witness of the closing branch: an operator was answered once and then
\* sent something that is not a request; the connection is closed with that one
\* response frame and the device connection holds the one request relayed.
C14_ClosedWitness ==
    \E o \in Ops :
        /\ pc[o] = "Closed"
        /\ nreqs = 1
        /\ Len(toOp[o]) = 1 /\ Len(done[o]) = 1
        /\ done[o][1].wrote
        /\ Len(toDevice[1]) = 1

\* C15: the step that installs a new device connection leaves every operator
\* task, every call's locals and every earlier connection's counter, locks and
\* transport as they were.  A call made on connection c keeps c until it returns
\* and its steps touch the wire of c only.  While c is open and has no unread
\* frame, a call reading on c takes no step and its operator gets no frame,
\* whatever else happens, the installation of newer connections included.
C15_InFlightUntouched ==
    [][/\ nconns' # nconns
            => /\ pc' = pc /\ cur' = cur /\ done' = done /\ toOp' = toOp
               /\ toDevice' = toDevice /\ fromDevice' = fromDevice /\ rpos' = rpos
               /\ \A c \in 1..nconns :
                    /\ writer'[c] = writer[c] /\ reader'[c] = reader[c]
                    /\ request_id'[c] = request_id[c]
                    /\ devOpen'[c] = devOpen[c]
       /\ \A o \in Ops :
            LET c == cur[o].conn IN
            (c # 0 /\ Phase(pc[o]) = "Dispatch")
              => /\ cur'[o].conn = c
                 /\ pc'[o] # pc[o]
                      => \A d \in Conns \ {c} :
                           /\ toDevice'[d] = toDevice[d]
                           /\ rpos'[d] = rpos[d]
                           /\ request_id'[d] = request_id[d]
                 /\ (pc[o] = "Reading" /\ rpos[c] = Len(fromDevice[c]) /\ devOpen[c])
                      => /\ pc'[o] = "Reading"
                         /\ cur'[o] = cur[o]
                         /\ toOp'[o] = toOp[o]]_vars

\* C15 witness: a call that wrote its request to connection 1 is still reading on
\* it, unanswered, with its operator holding no frame, after connection 2 was
\* installed and served another operator's call to its response.
C15_Witness ==
    \E o, p \in Ops :
        /\ nconns = 2 /\ slot = 2
        /\ pc[o] = "Reading" /\ cur[o].conn = 1 /\ cur[o].wrote
        /\ devOpen[1] /\ rpos[1] = Len(fromDevice[1])
        /\ toOp[o] = <<>>
        /\ Len(toDevice[1]) = 1
        /\ Len(done[p]) = 1 /\ done[p][1].conn = 2 /\ done[p][1].gotIdx = 1
        /\ Len(toOp[p]) = 1

\* Every call made so far, relayed or not: <<o, i>> as in CallsOn.
AllCalls ==
    UNION { { <<o, i>> : i \in 1..Len(done[o]) }
              \cup (IF Phase(pc[o]) \in {"Dispatch", "Respond"} THEN {<<o, 0>>} ELSE {})
            : o \in Ops }

\* The request frames on all device connections, and the ids allocated on all
\* of them.
RECURSIVE TotalWritten(_)
TotalWritten(c) == IF c = 0 THEN 0 ELSE Len(toDevice[c]) + TotalWritten(c - 1)
RECURSIVE TotalIds(_)
TotalIds(c) == IF c = 0 THEN 0 ELSE request_id[c] + TotalIds(c - 1)

\* The places on the wire of the call's connection that hold a frame under the
\* call's id.
FramesOf(call) ==
    IF call.conn = 0 THEN {}
    ELSE {i \in 1..Len(toDevice[call.conn]) : toDevice[call.conn][i].id = <<call.id>>}

\* C16: the device connections together hold exactly one request frame per call
\* that wrote and none besides, a call that has failed included; no more ids
\* have been allocated and no more frames written than requests were read; and
\* a call that found the slot empty has no connection, no id and no frame.
C16_NoRetry ==
    /\ TotalWritten(MaxConns) = Cardinality({k \in AllCalls : CallAt(k).wrote})
    /\ TotalIds(MaxConns) = Cardinality({k \in AllCalls : CallAt(k).id # 0})
    /\ TotalWritten(MaxConns) <= TotalIds(MaxConns)
    /\ TotalIds(MaxConns) <= nreqs
    /\ Cardinality(AllCalls) = nreqs
    /\ \A k \in AllCalls :
         LET call == CallAt(k) IN
         /\ Cardinality(FramesOf(call)) = IF call.wrote THEN 1 ELSE 0
         /\ call.conn = 0 => (call.id = 0 /\ ~call.wrote)

\* C16 witness: two requests were relayed and both calls failed, one on a frame
\* that is not a response and one on the end of the stream; the device
\* connection holds their two request frames and nothing else, and a third
\* request would be the operator's to send.
C16_Witness ==
    \E o \in Ops :
        /\ pc[o] = "AwaitRequest"
        /\ Len(done[o]) = 2
        /\ done[o][1].wrote /\ done[o][1].got.kind = "garbage" /\ ~done[o][1].outcome.ok
        /\ done[o][2].wrote /\ done[o][2].got.kind = "eof" /\ ~done[o][2].outcome.ok
        /\ Len(toDevice[1]) = 2
        /\ request_id[1] = 2

\* C16 witness of the empty slot: a request was answered "Bitwig not connected"
\* before the device connected, and the next one was relayed; the connection's
\* counter is 1 and its wire holds one frame.
C16_EmptySlotWitness ==
    \E o \in Ops :
        /\ Len(done[o]) = 1 /\ done[o][1].conn = 0
        /\ cur[o].wrote /\ cur[o].conn = 1
        /\ request_id[1] = 1 /\ Len(toDevice[1]) = 1 /\ nreqs = 2

\* The calls that are stalled: waiting for a lock of their connection, or
\* holding one with the transport giving nothing.
Stalled ==
    {o \in Ops : pc[o] \in {"LockWriter", "Writing", "LockReader", "Reading"}}

\* C17: no task holds a guard of the slot's lock while it is suspended, so
\* whatever calls are stalled on device connections, listen can install the next
\* connection, is_connected can answer, and a call at its snapshot step can take
\* its snapshot; the snapshot taken is the connection installed last, and it is
\* taken without any change to the stalled calls.
C17_SlotLockScope ==
    /\ [](/\ slotLock = {}
          /\ nconns < MaxConns => ENABLED Accept(MaxConns)
          /\ ENABLED Status
          /\ \A o \in Ops : pc[o] = "Dispatch" => ENABLED Snapshot(o))
    /\ [][\A o \in Ops :
            (pc[o] = "Dispatch" /\ pc'[o] # "Dispatch" /\ nconns > 0)
              => /\ cur'[o].conn = nconns
                 /\ pc'[o] = "NextId"
                 /\ \A p \in Stalled : pc'[p] = pc[p] /\ cur'[p] = cur[p]]_vars

\* C17 witness: with one call stalled reading on connection 1, connection 2 was
\* installed, the status tool was told "connected", and a call begun afterwards
\* is on connection 2 and holds its writer lock.
C17_Witness ==
    \E o, p \in Ops :
        /\ pc[o] = "Reading" /\ cur[o].conn = 1 /\ reader[1] = o
        /\ devOpen[1] /\ rpos[1] = Len(fromDevice[1])
        /\ nconns = 2 /\ slot = 2
        /\ status = <<TRUE>>
        /\ pc[p] = "Writing" /\ cur[p].conn = 2 /\ writer[2] = p

\* C18: the slot is empty exactly until the first device connection is accepted
\* and no step empties it afterwards, the end of a device transport included;
\* is_connected is true exactly when a connection has been accepted, which is
\* what bitwig_status gets; and once one has been accepted no call's outcome
\* becomes "Bitwig not connected".
C18_NeverEmptied ==
    [][/\ (slot = 0) = (nconns = 0)
       /\ slot # 0 => slot' # 0
       /\ is_connected = (nconns > 0)
       /\ is_connected => is_connected'
       /\ status' # status => status' = <<nconns > 0>>
       /\ \A o \in Ops :
            (nconns > 0 /\ cur'[o].outcome # cur[o].outcome)
              => cur'[o].outcome.msg # <<"Bitwig not connected">>]_vars

\* C18 witness: the only device connection has ended, a call made after that
\* failed on its write to it (not as "not connected"), the slot still holds the
\* connection and bitwig_status says connected.
C18_Witness ==
    \E o \in Ops :
        /\ nconns = 1 /\ ~devOpen[1]
        /\ slot = 1 /\ is_connected
        /\ status = <<TRUE>>
        /\ Len(done[o]) = 1
        /\ done[o][1].conn = 1 /\ ~done[o][1].wrote
        /\ done[o][1].outcome = Err(<<"transport error">>)

\* The locks task o holds.
LocksHeld(o) ==
    (IF o \in slotLock THEN {<<"slot", 0>>} ELSE {})
    \cup {<<"writer", c>> : c \in {d \in Conns : writer[d] = o}}
    \cup {<<"reader", c>> : c \in {d \in Conns : reader[d] = o}}

\* C19: no task holds two locks at once (the id counter's lock is taken and
\* dropped inside next_id, with no await in between), a task outside the write
\* and read blocks holds none; and under fair scheduling with a device that
\* answers, every call returns and every dispatched request comes to the end of
\* its iteration: the response frame is written and the task awaits the next
\* request, or the write to the operator failed and the connection is closed.
C19_NoDeadlock ==
    /\ [](\A o \in Ops :
            /\ Cardinality(LocksHeld(o)) <= 1
            /\ pc[o] \notin {"Writing", "Reading"} => LocksHeld(o) = {})
    /\ \A o \in Ops :
         /\ (Phase(pc[o]) = "Dispatch") ~> (pc[o] = "Respond")
         /\ (Phase(pc[o]) = "Dispatch") ~> (pc[o] \in {"AwaitRequest", "Closed"})

\* C19 witness: two calls were in flight on connection 1 at once (the one with
\* id 1 read the second frame), both returned with a response read, and both
\* operators hold their response frame.
C19_Witness ==
    \E o, p \in Ops :
        /\ o # p
        /\ pc[o] = "AwaitRequest" /\ pc[p] = "AwaitRequest"
        /\ Len(toOp[o]) = 1 /\ Len(toOp[p]) = 1
        /\ done[o][1].conn = 1 /\ done[o][1].id = 1 /\ done[o][1].gotIdx = 2
        /\ done[p][1].conn = 1 /\ done[p][1].id = 2 /\ done[p][1].gotIdx = 1
        /\ \A c \in Conns : writer[c] = 0 /\ reader[c] = 0

\* The ids of the request frames on the wire of device connection c, in order.
WireIds(c) == [i \in 1..Len(toDevice[c]) |-> toDevice[c][i].id[1]]

\* C20 (as claimed): on every device connection the ids of the request frames
\* on the wire are strictly increasing.
C20_WireOrdered ==
    \A c \in Conns :
        \A i, j \in 1..Len(toDevice[c]) : i < j => WireIds(c)[i] < WireIds(c)[j]

\* C20 (amended): on every device connection the request frames on the wire
\* carry pairwise different ids, each one allocated on that connection; the
\* frames of one operator task's calls are on the wire in the order of their
\* ids; the frames of different tasks' calls are in the order in which the calls
\* got the writer lock, which need not be the order of their ids.
C20_WireIds ==
    \A c \in Conns :
        /\ \A i \in 1..Len(toDevice[c]) : WireIds(c)[i] \in 1..request_id[c]
        /\ \A i, j \in 1..Len(toDevice[c]) : i # j => WireIds(c)[i] # WireIds(c)[j]
        /\ \A k, l \in CallsOn(c) :
              (k[1] = l[1] /\ k[2] # 0 /\ (l[2] = 0 \/ k[2] < l[2])
                 /\ CallAt(k).wrote /\ CallAt(l).wrote)
                => /\ CallAt(k).id < CallAt(l).id
                   /\ \A i \in FramesOf(CallAt(k)), j \in FramesOf(CallAt(l)) : i < j

\* C20 witness: two calls in flight at once on connection 1 have both written,
\* the one holding id 2 first.
C20_Witness ==
    \E o, p \in Ops :
        /\ cur[o].conn = 1 /\ cur[o].id = 1 /\ cur[o].wrote
        /\ cur[p].conn = 1 /\ cur[p].id = 2 /\ cur[p].wrote
        /\ WireIds(1) = <<2, 1>>

====
